---- MODULE Spec2Model ----
(***************************************************************************)
(* Model of metriclock's SimulationClock (src/src/lib.rs).                 *)
(*                                                                         *)
(* Representation.                                                         *)
(*  - A std::time::Duration is a whole number of quanta.  The real quantum *)
(*    is one nanosecond (10^9 per second); the model keeps UnitsPerSec     *)
(*    quanta per second so that sub-second values and rounding exist while *)
(*    the state space stays small.  A Duration is never negative and never *)
(*    exceeds DurationMAX.                                                 *)
(*  - An f64 clock speed is the rational clock_speed / SpeedDen.  NaN and  *)
(*    infinities are not among the speeds enumerated, and the              *)
(*    representation error of f64 itself is not modelled: mul_f64 is the   *)
(*    exact product rounded to the nearest quantum, ties to even.          *)
(*  - A panic ends the run: it sets panicked and no operation follows.     *)
(*    The clock keeps the fields it had when the panic was raised.         *)
(*  - origin is the elapsed time the clock was constructed with; lastOp    *)
(*    and before record the last call and the clock as it was before it.   *)
(*    hist records the constructor and its argument, whether              *)
(*    set_clock_speed was ever called, and the elapsed time at which the   *)
(*    turn in progress was started.  They are history only: no operation   *)
(*    reads them.                                                          *)
(*  - pc is the position of the caller's loop (tests::clock_test) in       *)
(*    DriverSpec, and codec the value being converted in CodecSpec; Spec   *)
(*    leaves both alone.                                                   *)
(*  - Deserialisation (serde) can build a clock with arbitrary fields; it  *)
(*    is outside this model, which starts from the three constructors.     *)
(***************************************************************************)
EXTENDS Integers, Sequences, FiniteSets, TLC

VARIABLES clock_time, clock_mode, clock_speed, turn_duration,
          turn_time_remaining, panicked, origin, lastOp, before, hist,
          pc, codec

vars == <<clock_time, clock_mode, clock_speed, turn_duration,
          turn_time_remaining, panicked, origin, lastOp, before, hist,
          pc, codec>>

-----------------------------------------------------------------------------
(* Bounds of the model *)

\* quanta per second (stands for 1_000_000_000 nanoseconds)
UnitsPerSec == 2
\* denominator of the rational speeds
SpeedDen == 2
\* largest u64 (stands for 2^64 - 1)
U64Max == 300000000
\* largest tick delta enumerated, in quanta
MaxDelta == 4
\* ticks are taken until the clock is this many quanta past its origin
MaxAdvance == 12
\* largest u32 (stands for 2^32 - 1): the years a SimulationDateTime can hold
U32Max == 1
\* conversions made in a row on one value
MaxCodecSteps == 3
\* the loop of the caller runs until the clock is this many quanta past its
\* origin: two turns of the default clock and part of a third
MaxDriverAdvance == 30

-----------------------------------------------------------------------------
(* Program constants *)

DefaultTurnSecs == 6
FromSecondsTurnSecs == 3
SecondsPerYear == 100000000
SecondsPerMonth == 10000000
SecondsPerWeek == 1000000
SecondsPerDay == 100000
SecondsPerHour == 10000
SecondsPerMinute == 100

RealTime == "RealTime"
TurnBased == "TurnBased"
ClockMode == {TurnBased, RealTime}

\* Duration::MAX: u64::MAX seconds and the largest sub-second part
DurationMAX == U64Max * UnitsPerSec + (UnitsPerSec - 1)

\* Duration::from_secs
from_secs(secs) == secs * UnitsPerSec

\* Duration::default() / Duration::is_zero
DurationZero == 0
is_zero(d) == d = DurationZero

\* Duration::as_secs: the whole seconds
as_secs(d) == d \div UnitsPerSec

\* largest u8, the type of the six lower fields of SimulationDateTime
U8Max == 2 ^ 8 - 1

\* the casts `as u32` and `as u8` of a u64: the low bits are kept
as_u32(n) == n % (U32Max + 1)
as_u8(n) == n % (U8Max + 1)

-----------------------------------------------------------------------------
(* Inputs *)

Deltas == 0..MaxDelta
\* -1/SpeedDen, 0, 1/SpeedDen, 1, 1 + 1/SpeedDen, 2
Speeds == {-1, 0, 1, SpeedDen, SpeedDen + 1, 2 * SpeedDen}
EpochSeconds == {0, 10, U64Max}
\* <<year, month, week, day, hour, minute, second>>: two canonical tuples, one
\* whose month is beyond its place, and one whose seconds pass U64Max
MetricTimestamps ==
    {<<0, 0, 0, 0, 0, 0, 45>>, <<1, 0, 0, 0, 0, 0, 45>>,
     <<0, 12, 0, 0, 0, 0, 0>>, <<3, 0, 0, 0, 0, 0, 45>>}

\* values of SimulationDateTime: year is a u32 and the other fields are u8.
\* The canonical ones have every field at an end of its place, seconds also
\* in the middle; the others have a field beyond its place.
CanonicalDateTimes ==
    {<<year, month, week, day, hour, minute, second>> :
        year \in 0..U32Max, month \in {0, 9}, week \in {0, 9},
        day \in {0, 9}, hour \in {0, 9}, minute \in {0, 99},
        second \in {0, 45, 99}}
DateTimes ==
    CanonicalDateTimes \cup
    {<<0, 12, 0, 0, 0, 0, 0>>, <<0, 0, 0, 0, 0, 100, 0>>,
     <<0, 9, 9, 9, 9, 99, U8Max>>, <<1, 0, 0, 10, 0, 0, 100>>}
\* values of SimulationTimestamp: whole seconds up to u64::MAX, years past
\* U32Max among them, and two with a sub-second part
Timestamps ==
    {from_secs(secs) :
        secs \in {0, 45, 100000045, 199999999, 299999999, U64Max}}
    \cup {from_secs(45) + 1, DurationMAX}

-----------------------------------------------------------------------------
(* Duration arithmetic used by the clock *)

\* a result of an operation that may panic
Ok(v) == [ok |-> TRUE, val |-> v]
Panic == [ok |-> FALSE, val |-> 0]

\* nearest integer to n / den for n >= 0, ties to even
round_ties_even(n, den) ==
    LET q == n \div den
        r == n % den
    IN  IF 2 * r < den THEN q
        ELSE IF 2 * r > den THEN q + 1
        ELSE IF q % 2 = 0 THEN q ELSE q + 1

\* mutant: a negative product is kept instead of raising a panic
mul_f64_signed(delta, speed) ==
    LET n == delta * speed
    IN  IF n < 0 THEN Ok(0 - round_ties_even(0 - n, SpeedDen))
        ELSE Ok(round_ties_even(n, SpeedDen))

\* Duration::mul_f64: panics when the product is negative or overflows
mul_f64(delta, speed) ==
    LET n == delta * speed
    IN  IF n < 0 THEN Panic
        ELSE IF round_ties_even(n, SpeedDen) > DurationMAX THEN Panic
        ELSE Ok(round_ties_even(n, SpeedDen))

\* mutant: plain subtraction
wrapping_sub(a, b) == a - b

\* Duration::saturating_sub
saturating_sub(a, b) == IF b > a THEN DurationZero ELSE a - b

\* Duration += Duration: panics on overflow
add_assign(a, b) == IF a + b > DurationMAX THEN Panic ELSE Ok(a + b)

-----------------------------------------------------------------------------
(* SimulationClock *)

\* the clock as a value
self ==
    [clock_time |-> clock_time, clock_mode |-> clock_mode,
     clock_speed |-> clock_speed, turn_duration |-> turn_duration,
     turn_time_remaining |-> turn_time_remaining, panicked |-> panicked]

\* impl Default for SimulationClock
default ==
    [clock_time |-> DurationZero, clock_mode |-> RealTime,
     clock_speed |-> SpeedDen, turn_duration |-> from_secs(DefaultTurnSecs),
     turn_time_remaining |-> DurationZero, panicked |-> FALSE]

\* mutant: the clock starts at the speed of the default clock
from_seconds_running(epoch_seconds) ==
    [clock_time |-> from_secs(epoch_seconds), clock_mode |-> RealTime,
     clock_speed |-> SpeedDen, turn_duration |-> from_secs(FromSecondsTurnSecs),
     turn_time_remaining |-> DurationZero, panicked |-> FALSE]

\* SimulationClock::from_seconds
from_seconds(epoch_seconds) ==
    [clock_time |-> from_secs(epoch_seconds), clock_mode |-> RealTime,
     clock_speed |-> 0, turn_duration |-> from_secs(FromSecondsTurnSecs),
     turn_time_remaining |-> DurationZero, panicked |-> FALSE]

\* SimulationClock::from_metric_timestamp: the clocks the call can produce.
\* The sum is u64 arithmetic: when it passes U64Max the build with overflow
\* checks panics (no clock is returned: the fields shown are never read) and
\* the build without them keeps the sum modulo 2^64.
from_metric_timestamp(f) ==
    LET epoch_seconds ==
            f[1] * SecondsPerYear + f[2] * SecondsPerMonth
          + f[3] * SecondsPerWeek + f[4] * SecondsPerDay
          + f[5] * SecondsPerHour + f[6] * SecondsPerMinute + f[7] * 1
    IN  IF epoch_seconds <= U64Max
        THEN {[default EXCEPT !.clock_time = from_secs(epoch_seconds)]}
        ELSE {[default EXCEPT !.panicked = TRUE],
              [default EXCEPT
                  !.clock_time = from_secs(epoch_seconds % (U64Max + 1))]}

\* SimulationClock::set_clock_speed
set_clock_speed(c, speed) == [c EXCEPT !.clock_speed = speed]

\* mutant: turn mode is entered again, and the turn reset, in any mode
enable_turn_mode_always(c) ==
    [c EXCEPT !.clock_mode = TurnBased,
              !.turn_time_remaining = c.turn_duration]

\* SimulationClock::enable_turn_mode
enable_turn_mode(c) ==
    IF c.clock_mode = RealTime
    THEN [c EXCEPT !.clock_mode = TurnBased,
                   !.turn_time_remaining = c.turn_duration]
    ELSE c

\* mutant: the turn is never reported complete
turn_complete_never(c) == FALSE

\* SimulationClock::turn_complete
turn_complete(c) == is_zero(c.turn_time_remaining)

\* mutant: the turn is reset whenever the mode is TurnBased
advance_turn_early(c) ==
    IF c.clock_mode = TurnBased
    THEN [c EXCEPT !.turn_time_remaining = c.turn_duration]
    ELSE c

\* SimulationClock::advance_turn
advance_turn(c) ==
    IF c.clock_mode = TurnBased /\ c.turn_time_remaining = DurationZero
    THEN [c EXCEPT !.turn_time_remaining = c.turn_duration]
    ELSE c

\* mutant: the remaining turn time is kept on leaving turn mode
disable_turn_mode_keep(c) ==
    IF c.clock_mode = TurnBased
    THEN [c EXCEPT !.clock_mode = RealTime]
    ELSE c

\* SimulationClock::disable_turn_mode
disable_turn_mode(c) ==
    IF c.clock_mode = TurnBased
    THEN [c EXCEPT !.clock_mode = RealTime,
                   !.turn_time_remaining = DurationZero]
    ELSE c

\* self.clock_time += delta
add_clock_time(c, delta) ==
    LET t == add_assign(c.clock_time, delta)
    IN  IF t.ok THEN [c EXCEPT !.clock_time = t.val]
        ELSE [c EXCEPT !.panicked = TRUE]

\* mutant: the turn is not checked for being over
tick_turn_based_always(c, delta) ==
    add_clock_time(
        [c EXCEPT !.turn_time_remaining = saturating_sub(@, delta)], delta)

\* mutant: the elapsed time is left alone
tick_turn_based_no_elapsed(c, delta) ==
    IF ~is_zero(c.turn_time_remaining)
    THEN [c EXCEPT !.turn_time_remaining = saturating_sub(@, delta)]
    ELSE c

\* mutant: the elapsed time stops at the end of the turn
tick_turn_based_capped(c, delta) ==
    IF ~is_zero(c.turn_time_remaining)
    THEN add_clock_time(
             [c EXCEPT !.turn_time_remaining = saturating_sub(@, delta)],
             IF delta > c.turn_time_remaining
             THEN c.turn_time_remaining ELSE delta)
    ELSE c

\* mutant: the delta is taken from turn_duration, not turn_time_remaining
tick_turn_based_wrong_field(c, delta) ==
    IF ~is_zero(c.turn_time_remaining)
    THEN add_clock_time(
             [c EXCEPT !.turn_duration = saturating_sub(@, delta)], delta)
    ELSE c

\* the TurnBased arm of tick
tick_turn_based(c, delta) ==
    IF ~is_zero(c.turn_time_remaining)
    THEN add_clock_time(
             [c EXCEPT !.turn_time_remaining = saturating_sub(@, delta)],
             delta)
    ELSE c

\* mutant: the delta is applied without the speed multiplier
tick_unscaled(c, delta) ==
    IF c.clock_mode = RealTime THEN add_clock_time(c, delta)
    ELSE tick_turn_based(c, delta)

\* SimulationClock::tick
tick(c, delta) ==
    LET scaled == mul_f64(delta, c.clock_speed)
    IN  IF ~scaled.ok THEN [c EXCEPT !.panicked = TRUE]
        ELSE IF c.clock_mode = RealTime THEN add_clock_time(c, scaled.val)
        ELSE tick_turn_based(c, scaled.val)

-----------------------------------------------------------------------------
(* SimulationDateTime and SimulationTimestamp *)

\* mutant: the months are not taken out before the weeks are counted
from_epoch_seconds_months_kept(epoch_seconds) ==
    LET year == epoch_seconds \div SecondsPerYear
        e1 == epoch_seconds - year * SecondsPerYear
        month == e1 \div SecondsPerMonth
        week == e1 \div SecondsPerWeek
        e3 == e1 - week * SecondsPerWeek
        day == e3 \div SecondsPerDay
        e4 == e3 - day * SecondsPerDay
        hour == e4 \div SecondsPerHour
        e5 == e4 - hour * SecondsPerHour
        minute == e5 \div SecondsPerMinute
        second == e5 - minute * SecondsPerMinute
    IN  <<as_u32(year), as_u8(month), as_u8(week), as_u8(day), as_u8(hour),
          as_u8(minute), as_u8(second)>>

\* SimulationDateTime::from_epoch_seconds: successive division in u64, then
\* the casts to the types of the fields
from_epoch_seconds(epoch_seconds) ==
    LET year == epoch_seconds \div SecondsPerYear
        e1 == epoch_seconds - year * SecondsPerYear
        month == e1 \div SecondsPerMonth
        e2 == e1 - month * SecondsPerMonth
        week == e2 \div SecondsPerWeek
        e3 == e2 - week * SecondsPerWeek
        day == e3 \div SecondsPerDay
        e4 == e3 - day * SecondsPerDay
        hour == e4 \div SecondsPerHour
        e5 == e4 - hour * SecondsPerHour
        minute == e5 \div SecondsPerMinute
        second == e5 - minute * SecondsPerMinute
    IN  <<as_u32(year), as_u8(month), as_u8(week), as_u8(day), as_u8(hour),
          as_u8(minute), as_u8(second)>>

\* impl From<SimulationDateTime> for SimulationTimestamp.  The sum is u64
\* arithmetic on a u32 and six u8 values, which cannot pass u64::MAX.
from_datetime(datetime) ==
    from_secs(datetime[1] * SecondsPerYear + datetime[2] * SecondsPerMonth
            + datetime[3] * SecondsPerWeek + datetime[4] * SecondsPerDay
            + datetime[5] * SecondsPerHour + datetime[6] * SecondsPerMinute
            + datetime[7] * 1)

\* impl From<SimulationTimestamp> for SimulationDateTime
from_timestamp(timestamp) == from_epoch_seconds(as_secs(timestamp))

-----------------------------------------------------------------------------
(* The state machine *)

\* neither a tick nor an entry into turn mode came right before the last call
NoTick == [tick |-> FALSE, enabled |-> FALSE, arg |-> 0, time |-> 0]

\* no turn is in progress
NoTurn == 0 - 1

\* the elapsed time at which the turn in progress was started, once the call
\* that was made has taken the clock to c
TurnStart(c) ==
    IF c.clock_mode = RealTime THEN NoTurn
    ELSE IF c.turn_time_remaining > turn_time_remaining THEN c.clock_time
    ELSE hist.turn_start

\* the clock becomes c; op and arg record the call that was made, and prev,
\* when that call is a tick made right after another tick, the delta of that
\* earlier tick and the elapsed time it started from, or, when it is a
\* disable_turn_mode made right after an enable_turn_mode that entered turn
\* mode, the elapsed time before that entry
Apply(c, op, arg) ==
    /\ clock_time' = c.clock_time
    /\ clock_mode' = c.clock_mode
    /\ clock_speed' = c.clock_speed
    /\ turn_duration' = c.turn_duration
    /\ turn_time_remaining' = c.turn_time_remaining
    /\ panicked' = c.panicked
    /\ lastOp' = [op |-> op, arg |-> arg,
                  prev |-> IF op = "tick" /\ lastOp.op = "tick"
                           THEN [tick |-> TRUE, enabled |-> FALSE,
                                 arg |-> lastOp.arg,
                                 time |-> before.clock_time]
                           ELSE IF /\ op = "disable_turn_mode"
                                   /\ lastOp.op = "enable_turn_mode"
                                   /\ before.clock_mode = RealTime
                           THEN [tick |-> FALSE, enabled |-> TRUE,
                                 arg |-> 0, time |-> before.clock_time]
                           ELSE NoTick]
    /\ before' = self
    /\ hist' = [hist EXCEPT
                   !.speed_set = @ \/ op = "set_clock_speed",
                   !.turn_start = TurnStart(c)]

Constructed(c, op, arg) ==
    /\ clock_time = c.clock_time
    /\ clock_mode = c.clock_mode
    /\ clock_speed = c.clock_speed
    /\ turn_duration = c.turn_duration
    /\ turn_time_remaining = c.turn_time_remaining
    /\ panicked = c.panicked
    /\ origin = c.clock_time
    /\ lastOp = [op |-> op, arg |-> 0, prev |-> NoTick]
    /\ before = c
    /\ hist = [ctor |-> op, arg |-> arg, speed_set |-> FALSE,
               turn_start |-> NoTurn]

\* the loop of the caller is not running; nothing is being converted
Idle == "idle"
NoCodec == [first |-> "none", steps |-> 0, dt |-> <<>>, ts |-> 0,
            dt0 |-> <<>>, ts0 |-> 0]

Init ==
    /\ \/ Constructed(default, "default", 0)
       \/ \E s \in EpochSeconds :
             Constructed(from_seconds(s), "from_seconds", s)
       \/ \E f \in MetricTimestamps :
             \E c \in from_metric_timestamp(f) :
                Constructed(c, "from_metric_timestamp", f)
    /\ pc = Idle
    /\ codec = NoCodec

Tick ==
    /\ ~panicked
    /\ clock_time < origin + MaxAdvance
    /\ \E delta \in Deltas : Apply(tick(self, delta), "tick", delta)
    /\ UNCHANGED <<origin, pc, codec>>

SetClockSpeed ==
    /\ ~panicked
    /\ \E speed \in Speeds :
          Apply(set_clock_speed(self, speed), "set_clock_speed", speed)
    /\ UNCHANGED <<origin, pc, codec>>

EnableTurnMode ==
    /\ ~panicked
    /\ Apply(enable_turn_mode(self), "enable_turn_mode", 0)
    /\ UNCHANGED <<origin, pc, codec>>

DisableTurnMode ==
    /\ ~panicked
    /\ Apply(disable_turn_mode(self), "disable_turn_mode", 0)
    /\ UNCHANGED <<origin, pc, codec>>

AdvanceTurn ==
    /\ ~panicked
    /\ Apply(advance_turn(self), "advance_turn", 0)
    /\ UNCHANGED <<origin, pc, codec>>

Next ==
    \/ Tick
    \/ SetClockSpeed
    \/ EnableTurnMode
    \/ DisableTurnMode
    \/ AdvanceTurn

Spec == Init /\ [][Next]_vars

-----------------------------------------------------------------------------
(* Conversions between SimulationDateTime and SimulationTimestamp.         *)
(* codec.first tells which kind of value the conversions started from,     *)
(* dt0 or ts0; dt and ts are the latest value of each kind and steps the   *)
(* number of conversions made.  No clock operation is involved: the clock  *)
(* stays the default one.                                                  *)

CodecInit ==
    /\ Constructed(default, "default", 0)
    /\ pc = Idle
    /\ \/ \E d \in DateTimes :
             codec = [first |-> "datetime", steps |-> 0, dt |-> d, ts |-> 0,
                      dt0 |-> d, ts0 |-> 0]
       \/ \E t \in Timestamps :
             codec = [first |-> "timestamp", steps |-> 0, dt |-> <<>>,
                      ts |-> t, dt0 |-> <<>>, ts0 |-> t]

\* the latest value is a SimulationDateTime
HoldsDateTime == (codec.first = "datetime") = (codec.steps % 2 = 0)

\* SimulationTimestamp::from(datetime)
CodecEncode ==
    /\ codec.steps < MaxCodecSteps
    /\ HoldsDateTime
    /\ codec' = [codec EXCEPT !.steps = @ + 1, !.ts = from_datetime(codec.dt)]
    /\ UNCHANGED <<clock_time, clock_mode, clock_speed, turn_duration,
                   turn_time_remaining, panicked, origin, lastOp, before,
                   hist, pc>>

\* SimulationDateTime::from(timestamp)
CodecDecode ==
    /\ codec.steps < MaxCodecSteps
    /\ ~HoldsDateTime
    /\ codec' = [codec EXCEPT !.steps = @ + 1, !.dt = from_timestamp(codec.ts)]
    /\ UNCHANGED <<clock_time, clock_mode, clock_speed, turn_duration,
                   turn_time_remaining, panicked, origin, lastOp, before,
                   hist, pc>>

CodecNext ==
    \/ CodecEncode
    \/ CodecDecode

CodecSpec == CodecInit /\ [][CodecNext]_vars

-----------------------------------------------------------------------------
(* Properties *)

\* the last call was a tick
Ticked == lastOp.op = "tick"

\* the five fields of the clock are those it had before the last call
FieldsUnchanged ==
    /\ clock_time = before.clock_time
    /\ clock_mode = before.clock_mode
    /\ clock_speed = before.clock_speed
    /\ turn_duration = before.turn_duration
    /\ turn_time_remaining = before.turn_time_remaining

\* what the last call added to the elapsed time and took from the turn
Gained == clock_time - before.clock_time
Consumed == before.turn_time_remaining - turn_time_remaining

\* the last tick's delta times the speed, as a count of 1/SpeedDen quanta
Product == lastOp.arg * before.clock_speed

\* v is n / SpeedDen rounded to a nearest quantum; it is n / SpeedDen itself
\* when that is a whole number of quanta
IsNearest(v, n) ==
    /\ 2 * (SpeedDen * v - n) <= SpeedDen
    /\ 2 * (n - SpeedDen * v) <= SpeedDen

\* adding n / SpeedDen to the elapsed time t stays within Duration::MAX
\* (n / SpeedDen rounded up is compared, which keeps the numbers small)
Fits(t, n) == (n + SpeedDen - 1) \div SpeedDen <= DurationMAX - t

\* the last tick was made in TurnBased mode with turn time remaining
TickedInTurn ==
    /\ Ticked
    /\ before.clock_mode = TurnBased
    /\ before.turn_time_remaining > DurationZero

(* C1: in every state reachable from a constructor by tick,               *)
(* set_clock_speed, enable_turn_mode, disable_turn_mode and advance_turn,  *)
(* 0 <= turn_time_remaining <= turn_duration.                              *)
C1_TurnRemainingInRange ==
    /\ DurationZero <= turn_time_remaining
    /\ turn_time_remaining <= turn_duration

\* a tick has consumed part of a turn
C1_Witness ==
    /\ TickedInTurn
    /\ ~panicked
    /\ DurationZero < turn_time_remaining
    /\ turn_time_remaining < before.turn_time_remaining

(* C2: whenever the mode is RealTime, turn_time_remaining is zero and      *)
(* turn_complete() returns true.                                           *)
C2_RealTimeRemainingZero ==
    clock_mode = RealTime =>
        /\ turn_time_remaining = DurationZero
        /\ turn_complete(self)

\* turn mode has been left in the middle of a turn
C2_Witness ==
    /\ lastOp.op = "disable_turn_mode"
    /\ before.clock_mode = TurnBased
    /\ before.turn_time_remaining > DurationZero
    /\ clock_mode = RealTime

(* C3: a tick made in TurnBased mode while turn_time_remaining is 0        *)
(* leaves every field of the clock as it was, for any delta and any speed, *)
(* each time it is made.  (Whether the call returns is C7's subject: the   *)
(* speed multiplication comes first and may panic.)                        *)
C3_PausedTickNoOp ==
    (/\ Ticked
     /\ before.clock_mode = TurnBased
     /\ before.turn_time_remaining = DurationZero) => FieldsUnchanged

\* a tick with a positive delta and speed was made after the turn was over
C3_Witness ==
    /\ Ticked
    /\ before.clock_mode = TurnBased
    /\ before.turn_time_remaining = DurationZero
    /\ lastOp.arg > 0
    /\ clock_speed > 0
    /\ ~panicked

(* C4: advance_turn sets turn_time_remaining to turn_duration exactly when *)
(* the mode is TurnBased and turn_time_remaining is 0; in any other state  *)
(* it changes no field.                                                    *)
C4_AdvanceTurn ==
    lastOp.op = "advance_turn" =>
        IF before.clock_mode = TurnBased
           /\ before.turn_time_remaining = DurationZero
        THEN self = [before EXCEPT !.turn_time_remaining = before.turn_duration]
        ELSE self = before

\* advance_turn has started a new turn
C4_Witness ==
    /\ lastOp.op = "advance_turn"
    /\ before.clock_mode = TurnBased
    /\ before.turn_time_remaining = DurationZero
    /\ turn_time_remaining = turn_duration
    /\ turn_time_remaining > DurationZero

(* C5 as stated: turn_time_remaining never increases except in an         *)
(* advance_turn step taken while it is 0.                                  *)
C5_OnlyAdvanceTurnReplenishes ==
    turn_time_remaining > before.turn_time_remaining =>
        /\ lastOp.op = "advance_turn"
        /\ before.turn_time_remaining = DurationZero

(* C5 amended: turn_time_remaining increases only in an advance_turn step  *)
(* taken in TurnBased mode while it is 0, or in an enable_turn_mode step   *)
(* taken in RealTime mode; both set it to turn_duration.  Ticks never      *)
(* increase it.                                                            *)
C5_ReplenishedByAdvanceOrEnable ==
    /\ turn_time_remaining > before.turn_time_remaining =>
           /\ \/ /\ lastOp.op = "advance_turn"
                 /\ before.clock_mode = TurnBased
              \/ /\ lastOp.op = "enable_turn_mode"
                 /\ before.clock_mode = RealTime
           /\ before.turn_time_remaining = DurationZero
           /\ turn_time_remaining = turn_duration
    /\ Ticked => turn_time_remaining <= before.turn_time_remaining

\* entering turn mode has replenished the turn
C5_Witness ==
    /\ lastOp.op = "enable_turn_mode"
    /\ turn_time_remaining > before.turn_time_remaining

(* C6: the elapsed time never decreases: after each operation it is at     *)
(* least what it was before it.                                            *)
C6_ElapsedNeverDecreases == clock_time >= before.clock_time

\* a tick was asked to go backwards: positive delta, negative speed
C6_Witness ==
    /\ Ticked
    /\ lastOp.arg > 0
    /\ before.clock_speed < 0

\* the operations of a constructed clock
Operations == {"tick", "set_clock_speed", "enable_turn_mode",
               "disable_turn_mode", "advance_turn"}

(* C7: no operation signals a failure for any input; tick completes for    *)
(* every delta and every speed that was set, a negative one included.      *)
C7_NoOperationFails == lastOp.op \in Operations => ~panicked

(* C8 as stated: in TurnBased mode with turn_time_remaining > 0, a tick by *)
(* d <= turn_time_remaining adds d x speed to the elapsed time and takes   *)
(* the same amount from turn_time_remaining, for every speed.  The claim   *)
(* is read in its weakest form: of the ticks that return, and with         *)
(* d x speed rounded to a nearest quantum.                                 *)
C8_TickWithinDelta ==
    (/\ TickedInTurn
     /\ lastOp.arg <= before.turn_time_remaining
     /\ ~panicked) =>
        /\ IsNearest(Gained, Product)
        /\ Consumed = Gained

(* C8 amended: in TurnBased mode with turn_time_remaining > 0, a tick by d *)
(* with 0 <= d x speed <= turn_time_remaining, and with the elapsed time   *)
(* plus d x speed within Duration::MAX, returns, adds d x speed rounded to *)
(* a nearest quantum to the elapsed time (d x speed itself when that is a  *)
(* whole number of quanta), and takes that same amount from                *)
(* turn_time_remaining.                                                    *)
C8_TickWithinScaledDelta ==
    (/\ TickedInTurn
     /\ 0 <= Product
     /\ Product <= SpeedDen * before.turn_time_remaining
     /\ Fits(before.clock_time, Product)) =>
        /\ ~panicked
        /\ IsNearest(Gained, Product)
        /\ Consumed = Gained

\* a fast tick whose delta is larger than the turn time it consumes
C8_Witness ==
    /\ TickedInTurn
    /\ before.clock_speed > SpeedDen
    /\ Product <= SpeedDen * before.turn_time_remaining
    /\ Gained > lastOp.arg
    /\ turn_time_remaining > DurationZero

TickedTwiceRealTime ==
    /\ Ticked
    /\ lastOp.prev.tick
    /\ clock_mode = RealTime
    /\ ~panicked

\* the clock before the first of the two ticks
BeforeBoth == [before EXCEPT !.clock_time = lastOp.prev.time]

\* the sum of the two deltas and its product with the speed
BothDeltas == lastOp.prev.arg + lastOp.arg
BothProduct == BothDeltas * clock_speed

C11_EnableTurnMode ==
    lastOp.op = "enable_turn_mode" =>
        IF before.clock_mode = RealTime
        THEN self = [before EXCEPT
                       !.clock_mode = TurnBased,
                       !.turn_time_remaining = before.turn_duration]
        ELSE self = before

\* enable_turn_mode was called in the middle of a turn
C11_Witness ==
    /\ lastOp.op = "enable_turn_mode"
    /\ before.clock_mode = TurnBased
    /\ before.turn_time_remaining > DurationZero
    /\ before.turn_time_remaining < before.turn_duration
    /\ turn_time_remaining = before.turn_time_remaining

\* the last call was enable_turn_mode or disable_turn_mode
ModeCall == lastOp.op \in {"enable_turn_mode", "disable_turn_mode"}

(* C12: from a RealTime state, enable_turn_mode followed at once by        *)
(* disable_turn_mode gives RealTime mode with turn_time_remaining 0 and    *)
(* the elapsed time of before the two calls; and neither call ever changes *)
(* the elapsed time, the speed or turn_duration.                           *)
C12_EnableThenDisable ==
    /\ (lastOp.op = "disable_turn_mode" /\ lastOp.prev.enabled) =>
           /\ clock_mode = RealTime
           /\ turn_time_remaining = DurationZero
           /\ clock_time = lastOp.prev.time
    /\ ModeCall =>
           /\ clock_time = before.clock_time
           /\ clock_speed = before.clock_speed
           /\ turn_duration = before.turn_duration

\* turn mode was entered and left at once, after the clock had advanced
C12_Witness ==
    /\ lastOp.op = "disable_turn_mode"
    /\ lastOp.prev.enabled
    /\ before.clock_mode = TurnBased
    /\ before.turn_time_remaining = before.turn_duration
    /\ clock_time > origin

(* C17: turn_duration is what the constructor gave it, whatever is called; *)
(* the speed is changed by set_clock_speed alone and the mode by           *)
(* enable_turn_mode and disable_turn_mode alone.                           *)
C17_FrameOfOperations ==
    /\ turn_duration = before.turn_duration
    /\ turn_duration = IF hist.ctor = "from_seconds"
                       THEN from_secs(FromSecondsTurnSecs)
                       ELSE from_secs(DefaultTurnSecs)
    /\ clock_speed # before.clock_speed => lastOp.op = "set_clock_speed"
    /\ clock_mode # before.clock_mode => ModeCall

\* a tick has consumed turn time and left turn_duration alone
C17_Witness ==
    /\ TickedInTurn
    /\ turn_time_remaining < before.turn_time_remaining
    /\ turn_duration = before.turn_duration
    /\ hist.speed_set

\* the clock was built by from_seconds and set_clock_speed was not called
FromSecondsUntouched == hist.ctor = "from_seconds" /\ ~hist.speed_set

(* C16: a clock built by from_seconds(s) starts with elapsed time s, mode  *)
(* RealTime and speed 0, and until set_clock_speed is called every tick,   *)
(* by any delta and in either mode, returns and leaves the elapsed time    *)
(* at s.                                                                   *)
C16_FromSecondsPaused ==
    /\ lastOp.op = "from_seconds" =>
           /\ clock_mode = RealTime
           /\ turn_time_remaining = DurationZero
    /\ FromSecondsUntouched =>
           /\ clock_speed = 0
           /\ clock_time = from_secs(hist.arg)
           /\ clock_time \div UnitsPerSec = hist.arg
           /\ ~panicked

\* the paused clock was ticked by a positive delta in the middle of a turn
C16_Witness ==
    /\ FromSecondsUntouched
    /\ TickedInTurn
    /\ lastOp.arg > 0
    /\ hist.arg > 0

\* a turn was started and its time has run out
TurnRanOut ==
    /\ clock_mode = TurnBased
    /\ turn_time_remaining = DurationZero
    /\ hist.turn_start # NoTurn

(* C18: when a turn that was started by enable_turn_mode or advance_turn   *)
(* has been driven to 0 by ticks, the elapsed time gained since the turn   *)
(* started is at least turn_duration.                                      *)
C18_TurnElapsesFully ==
    TurnRanOut => clock_time - hist.turn_start >= turn_duration

\* the same, for the turns whose ticks have all returned
TurnElapsesFullyWhenTicksReturn ==
    (TurnRanOut /\ ~panicked) =>
        clock_time - hist.turn_start >= turn_duration

\* the clock is as from_metric_timestamp returned it
MetricBuilt == lastOp.op = "from_metric_timestamp"

\* the scalar of the radix table for a tuple of fields
Encoded(f) ==
    f[1] * 100000000 + f[2] * 10000000 + f[3] * 1000000 + f[4] * 100000
  + f[5] * 10000 + f[6] * 100 + f[7]

(* C15: a clock built by from_metric_timestamp, for any non-negative field *)
(* values, has the elapsed time of the radix table, year*10^8 + month*10^7 *)
(* + week*10^6 + day*10^5 + hour*10^4 + minute*10^2 + second, and the      *)
(* mode, speed, turn_duration and turn_time_remaining of the default       *)
(* clock: RealTime, 1.0, 6 s and 0.                                        *)
C15_FromMetricTimestamp ==
    MetricBuilt =>
        /\ ~panicked
        /\ clock_time = from_secs(Encoded(hist.arg))
        /\ clock_mode = RealTime
        /\ clock_speed = SpeedDen
        /\ turn_duration = from_secs(6)
        /\ turn_time_remaining = DurationZero

\* the same, for the tuples whose scalar is within u64
FromMetricTimestampWithinU64 ==
    (MetricBuilt /\ Encoded(hist.arg) <= U64Max) => C15_FromMetricTimestamp

-----------------------------------------------------------------------------
(* Properties of the conversions *)

\* month, week, day and hour are in 0..9 and minute and second in 0..99
Canonical(f) ==
    /\ f[2] \in 0..9 /\ f[3] \in 0..9 /\ f[4] \in 0..9 /\ f[5] \in 0..9
    /\ f[6] \in 0..99 /\ f[7] \in 0..99

\* the conversions started from a canonical SimulationDateTime
FromCanonical == codec.first = "datetime" /\ Canonical(codec.dt0)

Decoded == codec.steps >= 1 /\ HoldsDateTime

(* C14: from_epoch_seconds gives canonical fields for every scalar,        *)
(* however it was produced: month, week, day and hour in 0..9, minute and  *)
(* second in 0..99, and year the whole quotient of the scalar by 10^8.     *)
C14_DecodeCanonical ==
    Decoded =>
        /\ Canonical(codec.dt)
        /\ codec.dt[1] = as_secs(codec.ts) \div 100000000

\* the six lower fields alone are canonical after every decode
DecodeLowerFieldsCanonical == Decoded => Canonical(codec.dt)

\* the conversions started from a SimulationTimestamp of whole seconds
FromWholeSeconds ==
    codec.first = "timestamp" /\ codec.ts0 % UnitsPerSec = 0

(* C20: decode loses nothing of a whole-second scalar: encoding the fields *)
(* that from_epoch_seconds(s) gives yields s again.                        *)
C20_DecodeThenEncode ==
    (FromWholeSeconds /\ codec.steps >= 2) => codec.ts = codec.ts0

\* the same, for the scalars whose year is within u32; and a tuple that is
\* not canonical decodes to fields that encode to the same scalar
DecodeThenEncodeWithinU32 ==
    /\ (/\ FromWholeSeconds
        /\ as_secs(codec.ts0) \div 100000000 <= U32Max
        /\ codec.steps >= 2) => codec.ts = codec.ts0
    /\ (codec.first = "datetime" /\ codec.steps >= 3) =>
           codec.ts = from_secs(Encoded(codec.dt0))

-----------------------------------------------------------------------------
(* The loop of the caller, as tests::clock_test runs it: a default clock,  *)
(* given a positive speed and put in turn mode, is ticked by a positive    *)
(* delta and, whenever the turn is complete, advanced to the next turn.    *)
(* pc is the statement to run next.  The test leaves the loop after a      *)
(* fixed number of iterations and calls disable_turn_mode; here the loop   *)
(* is left once the clock is MaxDriverAdvance past its origin.             *)

PositiveSpeeds == {speed \in Speeds : speed > 0}
PositiveDeltas == {delta \in Deltas : delta > 0}

DriverInit ==
    /\ Constructed(default, "default", 0)
    /\ pc = "start"
    /\ codec = NoCodec

DriverSetSpeed ==
    /\ pc = "start"
    /\ \E speed \in PositiveSpeeds :
          Apply(set_clock_speed(self, speed), "set_clock_speed", speed)
    /\ pc' = "enable"
    /\ UNCHANGED <<origin, codec>>

DriverEnable ==
    /\ pc = "enable"
    /\ Apply(enable_turn_mode(self), "enable_turn_mode", 0)
    /\ pc' = "tick"
    /\ UNCHANGED <<origin, codec>>

DriverTick ==
    /\ pc = "tick"
    /\ ~panicked
    /\ clock_time < origin + MaxDriverAdvance
    /\ \E delta \in PositiveDeltas : Apply(tick(self, delta), "tick", delta)
    /\ pc' = "check"
    /\ UNCHANGED <<origin, codec>>

DriverCheck ==
    /\ pc = "check"
    /\ ~panicked
    /\ IF turn_complete(self)
       THEN Apply(advance_turn(self), "advance_turn", 0)
       ELSE UNCHANGED <<clock_time, clock_mode, clock_speed, turn_duration,
                        turn_time_remaining, panicked, lastOp, before, hist>>
    /\ pc' = "tick"
    /\ UNCHANGED <<origin, codec>>

DriverExit ==
    /\ pc = "tick"
    /\ ~panicked
    /\ clock_time >= origin + MaxDriverAdvance
    /\ Apply(disable_turn_mode(self), "disable_turn_mode", 0)
    /\ pc' = "done"
    /\ UNCHANGED <<origin, codec>>

DriverNext ==
    \/ DriverSetSpeed
    \/ DriverEnable
    \/ DriverTick
    \/ DriverCheck
    \/ DriverExit

\* the caller is sequential code: it runs its next statement
DriverSpec == DriverInit /\ [][DriverNext]_vars /\ WF_vars(DriverNext)

-----------------------------------------------------------------------------
(* Properties of the loop *)

\* the loop is running
Driving == pc \in {"tick", "check"}

\* the clock has gone as far as the loop is followed
Horizon == clock_time >= origin + MaxDriverAdvance

\* a tick of the loop has just added to the elapsed time
Advanced == pc = "check" /\ Ticked /\ clock_time > before.clock_time

\* every turn in progress is eventually complete, and wherever the loop is,
\* a tick that adds to the elapsed time is still to come
TurnsCompleteAndClockAdvances ==
    /\ (Driving /\ ~is_zero(turn_time_remaining))
           ~> (is_zero(turn_time_remaining) \/ Horizon)
    /\ (pc = "tick") ~> (Advanced \/ Horizon)

(* C19: under the loop of the test (tick by a positive delta, then         *)
(* advance_turn if turn_complete), with a positive speed and the clock in  *)
(* turn mode, every turn is eventually complete and the clock does not     *)
(* stay stuck: the elapsed time keeps increasing.                          *)
C19_TurnsComplete == TurnsCompleteAndClockAdvances

\* the delta of the last tick, scaled by the speed, was at least one quantum
TickCounted == Ticked => round_ties_even(Product, SpeedDen) >= 1

(* C19, amended: the same, provided that the scaled delta of every tick    *)
(* of the loop rounds to at least one quantum of Duration.                 *)
C19_TurnsCompleteWhenTicksCount ==
    []TickCounted => TurnsCompleteAndClockAdvances

\* a turn was driven to 0 by the loop and advanced, and a tick of the next
\* turn has added to the elapsed time
C19_Witness ==
    /\ pc = "check"
    /\ Ticked
    /\ TickCounted
    /\ hist.turn_start >= origin + turn_duration
    /\ clock_time > before.clock_time
    /\ before.turn_time_remaining > DurationZero

====
